---- MODULE Spec2Model ----
(***************************************************************************)
(* Model of asyncpraw.models.comment_forest.CommentForest: the tree of     *)
(* Comment and MoreComments nodes of one submission, its flattening        *)
(* (list), _insert_comment, _gather_more_comments and replace_more; and of  *)
(* asyncpraw.reddit.Reddit.post with _handle_rate_limit.                   *)
(*                                                                         *)
(* Objects are handles (integers).  A Comment handle h owns the list       *)
(* comments[h], which is h.replies._comments; comments[Top] is the         *)
(* submission's own forest; a handle of NewLists is a list that a fetch    *)
(* returned: the one being merged, or one that a placeholder's             *)
(* _remove_from still refers to.                                           *)
(***************************************************************************)
EXTENDS Integers, Sequences, FiniteSets, TLC

\* ------------------------------------------------------------------ bounds
MaxComments == 4        \* Comment objects that may exist
MaxMores == 5           \* MoreComments objects that may exist
MaxNames == 4           \* distinct comment identities (fullnames)
MaxBatch == 2           \* nodes one fetch returns
MaxCount == 1           \* pending counts of generated placeholders
MaxLimit == 1           \* finite limits passed to replace_more
MaxCalls == 2           \* replace_more calls in one behaviour
MaxInserts == 1         \* direct _insert_comment calls in one behaviour
MaxLists == 2           \* successive list() calls on an unchanged forest
MaxItems == 2           \* items of one RedditAPIException

\* ------------------------------------------------------- encoding of values
None == -1              \* Python None
Top == 0                \* the list submission.comments._comments
MoreBase == 100         \* MoreComments handles are MoreBase + 1 ..
NewBase == 200          \* lists returned by fetches are NewBase + 1 ..

Procs == {1, 2}
CommentHandles == 1..MaxComments
MoreHandles == {MoreBase + i : i \in 1..MaxMores}
Names == 1..MaxNames
\* The lists fetches return.  Such a list lives while a placeholder's
\* _remove_from refers to it, so there are never more of them than
\* placeholders.
NewLists == {NewBase + k : k \in 1..MaxMores}
Containers == {Top} \cup CommentHandles \cup NewLists
Counts == 0..MaxCount
Limits == {None} \cup 0..MaxLimit
Thresholds == {0, 1, 10}

\* isinstance(comment, MoreComments)
IsMore(x) == x > MoreBase

\* stands for "no list yet" where a list is expected
NoList == <<None>>

\* no list() call has returned since the forest last changed; otherwise n
\* counts the calls made on forest f since then, out is what the last one
\* returned and prev what the one before it returned
NotListed == [f |-> None, out |-> <<>>, n |-> 0, prev |-> <<>>]

SeqToSet(s) == {s[i] : i \in 1..Len(s)}

Min(S) == CHOOSE x \in S : \A y \in S : x <= y

\* the placeholders of a list, comments left out
RECURSIVE MoresOf(_)
MoresOf(s) ==
    IF s = <<>> THEN <<>>
    ELSE IF IsMore(Head(s)) THEN <<Head(s)>> \o MoresOf(Tail(s))
    ELSE MoresOf(Tail(s))

\* ------------------------------------------------------------------- heapq
\* MoreComments.__lt__: the placeholder with the larger count is "smaller",
\* which turns heapq's min-heap into a max-heap.
MoreLt(cnt, a, b) == cnt[a] > cnt[b]

\* heapq._siftdown, positions 1-based (parent of pos is pos \div 2)
RECURSIVE SiftDown(_, _, _, _, _)
SiftDown(cnt, heap, startpos, pos, newitem) ==
    IF pos > startpos /\ MoreLt(cnt, newitem, heap[pos \div 2])
    THEN SiftDown(cnt, [heap EXCEPT ![pos] = heap[pos \div 2]],
                  startpos, pos \div 2, newitem)
    ELSE [heap EXCEPT ![pos] = newitem]

\* variant: of two children that compare equal the left one moves up
RECURSIVE SiftUpLeftFirst(_, _, _, _, _)
SiftUpLeftFirst(cnt, heap, startpos, pos, newitem) ==
    LET childpos == 2 * pos
        rightpos == childpos + 1
    IN IF childpos <= Len(heap)
       THEN LET c == IF rightpos <= Len(heap)
                        /\ MoreLt(cnt, heap[rightpos], heap[childpos])
                     THEN rightpos ELSE childpos
            IN SiftUpLeftFirst(cnt, [heap EXCEPT ![pos] = heap[c]], startpos,
                               c, newitem)
       ELSE SiftDown(cnt, [heap EXCEPT ![pos] = newitem], startpos, pos, newitem)

\* heapq._siftup, positions 1-based (children of pos are 2*pos, 2*pos+1)
RECURSIVE SiftUp(_, _, _, _, _)
SiftUp(cnt, heap, startpos, pos, newitem) ==
    LET childpos == 2 * pos
        rightpos == childpos + 1
    IN IF childpos <= Len(heap)
       THEN LET c == IF rightpos <= Len(heap)
                        /\ ~MoreLt(cnt, heap[childpos], heap[rightpos])
                     THEN rightpos ELSE childpos
            IN SiftUp(cnt, [heap EXCEPT ![pos] = heap[c]], startpos, c, newitem)
       ELSE SiftDown(cnt, [heap EXCEPT ![pos] = newitem], startpos, pos, newitem)

\* variant: a plain append, no sift
HeapPushAppend(cnt, heap, x) == Append(heap, x)

\* heapq.heappush(heap, item)
HeapPush(cnt, heap, x) ==
    SiftDown(cnt, Append(heap, x), 1, Len(heap) + 1, x)

\* variant: the last element of the list is taken
HeapPopLast(cnt, heap) ==
    [item |-> heap[Len(heap)], heap |-> SubSeq(heap, 1, Len(heap) - 1)]

\* variant: the root is read and stays in the heap
HeapPopPeek(cnt, heap) == [item |-> heap[1], heap |-> heap]

\* heapq.heappop(heap): [item, heap]
HeapPop(cnt, heap) ==
    LET lastelt == heap[Len(heap)]
        rest == SubSeq(heap, 1, Len(heap) - 1)
    IN IF rest # <<>>
       THEN [item |-> rest[1], heap |-> SiftUp(cnt, rest, 1, 1, lastelt)]
       ELSE [item |-> lastelt, heap |-> rest]

\* variant: the last element goes, whatever x is
ListRemoveLast(s, x) == SubSeq(s, 1, Len(s) - 1)

\* variant: nothing is removed
ListRemoveNothing(s, x) == s

\* list.remove(x): the first element equal to x goes; ValueError when absent
RECURSIVE ListRemove(_, _)
ListRemove(s, x) ==
    IF s = <<>> THEN <<>>
    ELSE IF Head(s) = x THEN Tail(s)
    ELSE <<Head(s)>> \o ListRemove(Tail(s), x)


\* ------------------------------------------------------------------- state
VARIABLES
    comments,       \* container -> its list: CommentForest._comments
    by_id,          \* submission._comments_by_id: name -> Comment handle | None
    name,           \* Comment handle -> comment.name (None: no such object)
    parent_id,      \* Comment handle -> comment.parent_id (None: is_root)
    count,          \* MoreComments handle -> more.count (None: no such object)
    remove_from,    \* MoreComments handle -> container more._remove_from
    pc,             \* call -> "idle" | "loop" | "await" | "done" | "raised"
    self,           \* call -> the container replace_more was called on
    limit,          \* call -> parameter limit
    threshold,      \* call -> parameter threshold
    remaining,      \* call -> local remaining
    more_comments,  \* call -> local heap more_comments
    skipped,        \* call -> local list skipped
    item,           \* call -> the placeholder popped last
    result,         \* call -> returned list (NoList before the return)
    err,            \* call -> exception that ended the call | insert outcome
    listed,         \* the last list() call: its forest and what it returned
    hist,           \* what an observer of the calls has recorded
    post_pc,        \* Reddit.post: "idle" | "first" | "sleep" | "retry" |
                    \*   "returned" | "raised"
    post_args,      \* Reddit.post: path, data, files, params, json (locals)
    requests,       \* the _objectify_request calls made, in order
    exception,      \* what the except clause of post caught
    seconds,        \* Reddit.post: local seconds
    slept,          \* the asyncio.sleep calls made, in order
    raised,         \* the exception that left post
    ratelimit_seconds   \* int(config.ratelimit_seconds)

forestVars == <<comments, by_id, name, parent_id, count, remove_from>>
callVars == <<pc, self, limit, threshold, remaining, more_comments, skipped,
              item, result, err>>
vars == <<comments, by_id, name, parent_id, count, remove_from, pc, self,
          limit, threshold, remaining, more_comments, skipped, item, result,
          err, listed, hist, post_pc, post_args, requests, exception, seconds,
          slept, raised, ratelimit_seconds>>
postVars == <<post_pc, post_args, requests, exception, seconds, slept, raised,
              ratelimit_seconds>>

\* The forest as one value, so that the methods below are functions of it.
World == [comments |-> comments, by_id |-> by_id, name |-> name,
          parent_id |-> parent_id, count |-> count,
          remove_from |-> remove_from]

\* ------------------------------------------------------------ CommentForest
\* comment.name as _insert_comment looks it up: a placeholder's name is no
\* comment identity.
NameOf(w, c) == IF IsMore(c) THEN None ELSE w.name[c]

\* variant: no name is ever found in the index
IndexedNever(w, n) == FALSE

\* name in submission._comments_by_id
Indexed(w, n) == n \in Names /\ w.by_id[n] # None

\* variant: the setter registers nothing
SetSubmissionUnregistered(w, todo) == w

\* Comment.submission setter: registers the comment under its name, then
\* does the same for each of its replies.  On a MoreComments the attribute
\* is a plain one.
RECURSIVE SetSubmission(_, _)
SetSubmission(w, todo) ==
    IF todo = <<>> THEN w
    ELSE LET c == Head(todo)
         IN IF IsMore(c) THEN SetSubmission(w, Tail(todo))
            ELSE SetSubmission([w EXCEPT !.by_id[w.name[c]] = c],
                               w.comments[c] \o Tail(todo))

\* variant: no test that the name is already indexed
InsertCommentUnchecked(w, f, c) ==
    LET w1 == SetSubmission(w, <<c>>)
    IN IF IsMore(c) \/ w.parent_id[c] = None
       THEN [w |-> [w1 EXCEPT !.comments[f] = Append(@, c)], err |-> "ok"]
       ELSE IF ~Indexed(w1, w.parent_id[c])
       THEN [w |-> w1, err |-> "AssertionError"]
       ELSE [w |-> [w1 EXCEPT !.comments[w1.by_id[w.parent_id[c]]] =
                                  Append(@, c)],
             err |-> "ok"]

\* variant: a comment whose name is indexed is taken for already inserted
InsertCommentDeduplicating(w, f, c) ==
    IF Indexed(w, NameOf(w, c)) THEN [w |-> w, err |-> "ok"]
    ELSE InsertCommentUnchecked(w, f, c)

\* variant: a comment whose parent is not indexed goes to the forest's own
\* list
InsertCommentAdopting(w, f, c) ==
    IF Indexed(w, NameOf(w, c))
    THEN [w |-> w, err |-> "DuplicateReplaceException"]
    ELSE LET w1 == SetSubmission(w, <<c>>)
         IN IF IsMore(c) \/ w.parent_id[c] = None
               \/ ~Indexed(w1, w.parent_id[c])
            THEN [w |-> [w1 EXCEPT !.comments[f] = Append(@, c)],
                  err |-> "ok"]
            ELSE [w |-> [w1 EXCEPT !.comments[w1.by_id[w.parent_id[c]]] =
                                       Append(@, c)],
                  err |-> "ok"]

\* CommentForest._insert_comment(comment), self._comments being container f:
\* [w, err]
InsertComment(w, f, c) ==
    IF Indexed(w, NameOf(w, c))
    THEN [w |-> w, err |-> "DuplicateReplaceException"]
    ELSE LET w1 == SetSubmission(w, <<c>>)
         IN IF IsMore(c) \/ w.parent_id[c] = None
            THEN [w |-> [w1 EXCEPT !.comments[f] = Append(@, c)],
                  err |-> "ok"]
            ELSE IF ~Indexed(w1, w.parent_id[c])
            THEN [w |-> w1, err |-> "AssertionError"]
            ELSE [w |-> [w1 EXCEPT !.comments[w1.by_id[w.parent_id[c]]] =
                                       Append(@, c)],
                  err |-> "ok"]

\* variant: a placeholder that is in no comment's replies is passed over
RECURSIVE GatherLoopNestedOnly(_, _, _, _)
GatherLoopNestedOnly(w, queue, heap, target) ==
    IF queue = <<>> THEN [heap |-> heap, w |-> w]
    ELSE LET parent == Head(queue)[1]
             comment == Head(queue)[2]
         IN IF IsMore(comment)
            THEN IF parent = None
                 THEN GatherLoopNestedOnly(w, Tail(queue), heap, target)
                 ELSE GatherLoopNestedOnly(
                        [w EXCEPT !.remove_from[comment] = parent],
                        Tail(queue), HeapPush(w.count, heap, comment), target)
            ELSE GatherLoopNestedOnly(
                    w,
                    Tail(queue) \o [i \in 1..Len(w.comments[comment]) |->
                                      <<comment, w.comments[comment][i]>>],
                    heap, target)

\* The loop of _gather_more_comments: queue holds <<parent, comment>> pairs.
RECURSIVE GatherLoop(_, _, _, _)
GatherLoop(w, queue, heap, target) ==
    IF queue = <<>> THEN [heap |-> heap, w |-> w]
    ELSE LET parent == Head(queue)[1]
             comment == Head(queue)[2]
         IN IF IsMore(comment)
            THEN GatherLoop(
                    [w EXCEPT !.remove_from[comment] =
                        IF parent # None THEN parent ELSE target],
                    Tail(queue), HeapPush(w.count, heap, comment), target)
            ELSE GatherLoop(
                    w,
                    Tail(queue) \o [i \in 1..Len(w.comments[comment]) |->
                                      <<comment, w.comments[comment][i]>>],
                    heap, target)

\* variant: only the placeholders of the list itself are gathered
GatherTopOnly(w, tree, parent_tree) ==
    GatherLoop([w EXCEPT !.comments =
                    [f \in Containers |-> IF f = tree THEN @[f] ELSE <<>>]],
               [i \in 1..Len(w.comments[tree]) |-> <<None, w.comments[tree][i]>>],
               <<>>,
               IF parent_tree # None /\ w.comments[parent_tree] # <<>>
               THEN parent_tree ELSE tree)

\* variant: the placeholders of tree itself get tree, whatever parent_tree is
GatherIgnoringFallback(w, tree, parent_tree) ==
    GatherLoop(w,
               [i \in 1..Len(w.comments[tree]) |-> <<None, w.comments[tree][i]>>],
               <<>>, tree)

\* CommentForest._gather_more_comments(tree, parent_tree): [heap, w].
\* tree and parent_tree are containers; "parent_tree or tree" takes tree
\* when parent_tree is None or an empty list.
Gather(w, tree, parent_tree) ==
    GatherLoop(w,
               [i \in 1..Len(w.comments[tree]) |-> <<None, w.comments[tree][i]>>],
               <<>>,
               IF parent_tree # None /\ w.comments[parent_tree] # <<>>
               THEN parent_tree ELSE tree)

\* variant: the replies go to the front of the queue
RECURSIVE ListLoopDepthFirst(_, _, _)
ListLoopDepthFirst(w, queue, out) ==
    IF queue = <<>> THEN out
    ELSE LET comment == Head(queue)
         IN ListLoopDepthFirst(w,
                     IF IsMore(comment) THEN Tail(queue)
                     ELSE w.comments[comment] \o Tail(queue),
                     Append(out, comment))

\* The loop of CommentForest.list
RECURSIVE ListLoop(_, _, _)
ListLoop(w, queue, out) ==
    IF queue = <<>> THEN out
    ELSE LET comment == Head(queue)
         IN ListLoop(w,
                     IF IsMore(comment) THEN Tail(queue)
                     ELSE Tail(queue) \o w.comments[comment],
                     Append(out, comment))

\* variant: the top-level list only
FlattenTopOnly(w, f) == w.comments[f]

\* CommentForest.list() of the forest whose list is container f
Flatten(w, f) == ListLoop(w, w.comments[f], <<>>)

\* variant: the queue is self._comments itself, which the loop empties
ListedConsuming(w, f) ==
    [w |-> [w EXCEPT !.comments[f] = <<>>], out |-> Flatten(w, f)]

\* What a list() call leaves and returns: [w, out].  queue = list(self) is a
\* new list, and so is each list of replies the loop extends it with; the
\* pops and appends work on these.
Listed(w, f) == [w |-> w, out |-> Flatten(w, f)]

\* ------------------------------------------------------------- replace_more
\* variant: the budget test lets one more fetch through
ShouldSkipBudgetLate(rem, cnt, thr) == (rem # None /\ rem < 0) \/ cnt < thr

\* variant: a count equal to the threshold is skipped too
ShouldSkipAtThreshold(rem, cnt, thr) ==
    (rem # None /\ rem <= 0) \/ cnt <= thr

\* the test that sends a popped placeholder to the skipped list
ShouldSkip(rem, cnt, thr) == (rem # None /\ rem <= 0) \/ cnt < thr

\* variant: the decrement is applied to None as well
DecrementAlways(rem) == rem - 1

\* "if remaining is not None: remaining -= 1"
Decrement(rem) == IF rem # None THEN rem - 1 ELSE rem

\* variant: the placeholders found in the fetched nodes are dropped
PushAllDropped(cnt, heap, mores) == heap

\* "for more in gathered: heappush(more_comments, more)"
RECURSIVE PushAll(_, _, _)
PushAll(cnt, heap, mores) ==
    IF mores = <<>> THEN heap
    ELSE PushAll(cnt, HeapPush(cnt, heap, Head(mores)), Tail(mores))

\* comment c is not a root comment and its parent_id is not in the index
Orphan(w, c) ==
    ~IsMore(c) /\ w.parent_id[c] # None /\ ~Indexed(w, w.parent_id[c])

\* variant: an insert that raises is passed over, and the first exception is
\* raised once the list is through
RECURSIVE InsertAllContinuing(_, _, _, _)
InsertAllContinuing(w, f, list, log) ==
    IF list = <<>> THEN [w |-> w, err |-> "ok", log |-> log]
    ELSE LET c == Head(list)
             r == InsertComment(w, f, c)
             e == [node |-> c, name |-> NameOf(w, c),
                   indexed |-> Indexed(w, NameOf(w, c)),
                   orphan |-> Orphan(w, c),
                   mapsto |-> IF IsMore(c) \/ w.parent_id[c] = None
                                 \/ Orphan(w, c)
                              THEN None ELSE w.by_id[w.parent_id[c]],
                   later |-> FALSE,
                   err |-> r.err]
             rest == InsertAllContinuing(r.w, f, Tail(list), Append(log, e))
         IN IF r.err # "ok"
            THEN [w |-> rest.w, err |-> r.err, log |-> Append(log, e)]
            ELSE rest

\* variant: the loop leaves after the first node
InsertAllFirstOnly(w, f, list, log) ==
    IF list = <<>> THEN [w |-> w, err |-> "ok", log |-> log]
    ELSE LET c == Head(list)
             r == InsertComment(w, f, c)
         IN [w |-> r.w, err |-> r.err,
             log |-> Append(log, [node |-> c, name |-> NameOf(w, c),
                                  indexed |-> Indexed(w, NameOf(w, c)),
                                  orphan |-> Orphan(w, c),
                                  mapsto |-> None, later |-> FALSE,
                                  err |-> r.err])]

\* variant: the list is inserted from its last node to its first
RECURSIVE InsertAllReversed(_, _, _, _)
InsertAllReversed(w, f, list, log) ==
    IF list = <<>> THEN [w |-> w, err |-> "ok", log |-> log]
    ELSE LET c == list[Len(list)]
             r == InsertComment(w, f, c)
             e == [node |-> c, name |-> NameOf(w, c),
                   indexed |-> Indexed(w, NameOf(w, c)),
                   orphan |-> Orphan(w, c),
                   mapsto |-> IF IsMore(c) \/ w.parent_id[c] = None
                                 \/ Orphan(w, c)
                              THEN None ELSE w.by_id[w.parent_id[c]],
                   later |-> FALSE,
                   err |-> r.err]
         IN IF r.err # "ok"
            THEN [w |-> r.w, err |-> r.err, log |-> Append(log, e)]
            ELSE InsertAllReversed(r.w, f, SubSeq(list, 1, Len(list) - 1),
                                   Append(log, e))

\* "for comment in new_comments: self._insert_comment(comment)": stops at
\* the first insert that raises.  log records, per attempted insert, the
\* node, its name, whether the name was indexed at that moment, whether the
\* node is a non-root comment whose parent_id was not indexed at that moment
\* (orphan), the comment the index mapped its parent_id to (mapsto), whether
\* a later node of the list has that parent_id for name, and the outcome.
RECURSIVE InsertAll(_, _, _, _)
InsertAll(w, f, list, log) ==
    IF list = <<>> THEN [w |-> w, err |-> "ok", log |-> log]
    ELSE LET c == Head(list)
             r == InsertComment(w, f, c)
             e == [node |-> c, name |-> NameOf(w, c),
                   indexed |-> Indexed(w, NameOf(w, c)),
                   orphan |-> Orphan(w, c),
                   mapsto |-> IF IsMore(c) \/ w.parent_id[c] = None
                                 \/ Orphan(w, c)
                              THEN None ELSE w.by_id[w.parent_id[c]],
                   later |-> Orphan(w, c) /\ \E j \in 2..Len(list) :
                                NameOf(w, list[j]) = w.parent_id[c],
                   err |-> r.err]
         IN IF r.err # "ok"
            THEN [w |-> r.w, err |-> r.err, log |-> Append(log, e)]
            ELSE InsertAll(r.w, f, Tail(list), Append(log, e))

\* variant: the skipped placeholders are left out
ReturnValueHeapOnly(heap, skip) == heap

\* "return more_comments + skipped"
ReturnValue(heap, skip) == heap \o skip

\* -------------------------------------------------- the fetch collaborator
\* What MoreComments.comments(update=False) may return: a list of new
\* objects.  An item describes one of them: a placeholder with its count, or
\* a comment with its name and parent_id that carries no reply (kid "N"),
\* one placeholder (kid "M") or one comment (kid "C") in its replies.
Item(k, n, q, c, kd, kn) ==
    [kind |-> k, name |-> n, parent |-> q, count |-> c, kid |-> kd,
     kname |-> kn]

MoreItems == {Item("M", None, None, c, "N", None) : c \in Counts}

CommentItems ==
    UNION {UNION {
        {Item("C", n, q, None, "N", None)}
        \cup {Item("C", n, q, c, "M", None) : c \in Counts}
        \cup {Item("C", n, q, None, "C", kn) : kn \in Names \ {n, q}}
      : q \in (Names \cup {None}) \ {n}} : n \in Names}

Items == MoreItems \cup CommentItems

\* The initial forests are built from these objects; a fetch creates its
\* objects beyond them.
InitComments == {1, 2}
InitMores == {MoreBase + 1, MoreBase + 2, MoreBase + 3, MoreBase + 4}

FreeComments(w) == {h \in CommentHandles \ InitComments : w.name[h] = None}
FreeMores(w) == {m \in MoreHandles \ InitMores : w.count[m] = None}

Max(S) == CHOOSE x \in S : \A y \in S : x >= y

\* the names an item mentions, and the objects it needs
ItemNames(it) == {it.name, it.parent, it.kname} \ {None}
ItemComments(it) == IF it.kind = "M" THEN 0 ELSE IF it.kid = "C" THEN 2 ELSE 1
ItemMores(it) == IF it.kind = "M" \/ it.kid = "M" THEN 1 ELSE 0

\* Names are opaque: an item is taken up to renaming of the identities no
\* object has yet, which enter in increasing order (known: the largest name
\* in use).  fc and fm are the objects that can still be created.
ValidItems(known, fc, fm) ==
    {it \in Items :
        /\ ItemComments(it) <= fc
        /\ ItemMores(it) <= fm
        /\ LET new == ItemNames(it) \ (1..known)
           IN new = (known + 1)..(known + Cardinality(new))}

\* the lists of at most k items a fetch may return
RECURSIVE BatchesFrom(_, _, _, _)
BatchesFrom(k, known, fc, fm) ==
    IF k = 0 THEN {<<>>}
    ELSE {<<>>} \cup UNION {
            {<<it>> \o b :
                b \in BatchesFrom(k - 1,
                                  Max({known} \cup ItemNames(it)),
                                  fc - ItemComments(it),
                                  fm - ItemMores(it))}
            : it \in ValidItems(known, fc, fm)}

KnownNames(w) == Max({0} \cup {w.name[h] : h \in CommentHandles}
                     \cup {w.parent_id[h] : h \in CommentHandles})

Batches(w) ==
    BatchesFrom(MaxBatch, KnownNames(w), Cardinality(FreeComments(w)),
                Cardinality(FreeMores(w)))

\* The objects the items describe, created in order: [w, list]
RECURSIVE Materialise(_, _, _)
Materialise(w, items, acc) ==
    IF items = <<>> THEN [w |-> w, list |-> acc]
    ELSE LET it == Head(items)
         IN IF it.kind = "M"
            THEN LET m == Min(FreeMores(w))
                 IN Materialise([w EXCEPT !.count[m] = it.count],
                                Tail(items), Append(acc, m))
            ELSE LET c == Min(FreeComments(w))
                     w1 == [w EXCEPT !.name[c] = it.name,
                                     !.parent_id[c] = it.parent]
                     w2 == IF it.kid = "M"
                           THEN LET m == Min(FreeMores(w1))
                                IN [w1 EXCEPT !.count[m] = it.count,
                                              !.comments[c] = <<m>>]
                           ELSE IF it.kid = "C"
                           THEN LET k == Min(FreeComments(w1))
                                IN [w1 EXCEPT !.name[k] = it.kname,
                                              !.parent_id[k] = it.name,
                                              !.comments[c] = <<k>>]
                           ELSE w1
                 IN Materialise(w2, Tail(items), Append(acc, c))

\* new_comments of a fetch: a list object no placeholder refers to
NewList(w) ==
    Min({l \in NewLists : \A m \in MoreHandles : w.remove_from[m] # l})

\* A list a fetch returned is gone once no placeholder's _remove_from refers
\* to it.
Sweep(w) ==
    [w EXCEPT !.comments =
        [f \in Containers |->
            IF f \in NewLists /\ \A m \in MoreHandles : w.remove_from[m] # f
            THEN <<>> ELSE @[f]]]

\* Objects a raised exception leaves unreferenced are gone: the objects
\* created since world `before` that no list of a surviving object holds and
\* the index does not map to.  A surviving placeholder keeps the list its
\* _remove_from refers to, and that list its nodes.
RECURSIVE Closure(_, _)
Closure(w, keep) ==
    LET lists == (keep \cap CommentHandles) \cup {Top}
                 \cup ({w.remove_from[m] : m \in keep \cap MoreHandles}
                       \cap NewLists)
        more == UNION {SeqToSet(w.comments[k]) : k \in lists}
    IN IF more \subseteq keep THEN keep ELSE Closure(w, keep \cup more)

Collect(w, before) ==
    LET old == {h \in CommentHandles : before.name[h] # None}
               \cup {m \in MoreHandles : before.count[m] # None}
        live == Closure(w, old \cup ({w.by_id[n] : n \in Names} \ {None}))
    IN [w EXCEPT
          !.comments = [f \in Containers |->
                          IF f \in CommentHandles \ live THEN <<>> ELSE @[f]],
          !.name = [h \in CommentHandles |->
                          IF h \in live THEN @[h] ELSE None],
          !.parent_id = [h \in CommentHandles |->
                          IF h \in live THEN @[h] ELSE None],
          !.count = [m \in MoreHandles |->
                          IF m \in live THEN @[m] ELSE None],
          !.remove_from = [m \in MoreHandles |->
                          IF m \in live THEN @[m] ELSE None]]

\* -------------------------------------------------------------- Reddit.post
\* Values of the arguments of post: None, an empty dict, or some payload.
EmptyDict == 300        \* {}
Payload == 301          \* a non-empty value
DataValues == {None, EmptyDict, Payload}
OptValues == {None, Payload}

\* bool(x) is False: "data or {}" takes {} for these
Falsy(x) == x \in {None, EmptyDict}

\* The message of an exception item is a list of tokens: a decimal number
\* (n) or a word (w), with single spaces between them.
Num(n) == [n |-> n, w |-> ""]
Word(w) == [n |-> None, w |-> w]

Messages ==
    {<<Word("try"), Word("again"), Word("in"), Num(5), Word("seconds")>>,
     <<Num(1), Word("minute")>>,
     <<Num(0), Word("seconds")>>,
     <<Num(105), Word("seconds")>>,
     <<Word("later")>>}

\* the words that "(seconds?|minutes?)" matches at their start
UnitWords == {"second", "seconds", "minute", "minutes"}

NoMatch == [group1 |-> None, group2 |-> ""]

\* _ratelimit_regex.search(message), "([0-9]{1,2}) (seconds?|minutes?)": the
\* leftmost number followed by a unit word; of a number of more than two
\* digits the group takes the last two.
RECURSIVE Search(_, _)
Search(message, i) ==
    IF i + 1 > Len(message) THEN NoMatch
    ELSE IF message[i].n # None /\ message[i + 1].w \in UnitWords
    THEN [group1 |-> message[i].n % 100, group2 |-> message[i + 1].w]
    ELSE Search(message, i + 1)

\* lines 732-734: int(group(1)), times 60 when "minute" is in group(2)
ParsedSeconds(m) ==
    IF m.group2 \in {"minute", "minutes"} THEN m.group1 * 60 ELSE m.group1

\* line 736: seconds + min(seconds / 10, 1), in tenths of a second
SleepSeconds(sec) == 10 * sec + Min({sec, 10})

ApiItem(t, m) == [error_type |-> t, message |-> m]

ApiItems ==
    {ApiItem("RATELIMIT", m) : m \in Messages}
    \cup {ApiItem("INVALID_OPTION", <<Word("later")>>)}

RECURSIVE ItemLists(_)
ItemLists(k) ==
    IF k = 0 THEN {<<>>}
    ELSE {<<>>} \cup {<<it>> \o l : it \in ApiItems, l \in ItemLists(k - 1)}

NoException == [type |-> "none", items |-> <<>>]

\* what a request may raise: a RedditAPIException with its items, or an
\* exception of another class
Exceptions ==
    {[type |-> "RedditAPIException", items |-> l] : l \in ItemLists(MaxItems)}
    \cup {[type |-> "ServerError", items |-> <<>>]}

\* variant: the delay is not compared with the setting
RECURSIVE HandleRateLimitAnyDelay(_, _)
HandleRateLimitAnyDelay(items, setting) ==
    IF items = <<>> THEN None
    ELSE IF Head(items).error_type = "RATELIMIT"
    THEN LET amount_search == Search(Head(items).message, 1)
         IN IF amount_search = NoMatch THEN None
            ELSE SleepSeconds(ParsedSeconds(amount_search))
    ELSE HandleRateLimitAnyDelay(Tail(items), setting)

\* Reddit._handle_rate_limit(exception), setting being
\* int(config.ratelimit_seconds): the sleep in tenths of a second, or None
RECURSIVE HandleRateLimit(_, _)
HandleRateLimit(items, setting) ==
    IF items = <<>> THEN None
    ELSE IF Head(items).error_type = "RATELIMIT"
    THEN LET amount_search == Search(Head(items).message, 1)
         IN IF amount_search = NoMatch THEN None
            ELSE IF ParsedSeconds(amount_search) <= setting
            THEN SleepSeconds(ParsedSeconds(amount_search))
            ELSE HandleRateLimit(Tail(items), setting)
    ELSE HandleRateLimit(Tail(items), setting)

\* the keyword arguments of one _objectify_request call
Request(data, files, json, method, params, path) ==
    [data |-> data, files |-> files, json |-> json, method |-> method,
     params |-> params, path |-> path]

\* lines 803-810: the first request
FirstRequest(a) ==
    Request(a.data, a.files, a.json, "POST", a.params, a.path)

\* lines 816-822: the request made after the sleep; json is not passed, so
\* _objectify_request takes its default None (line 694)
RetryRequest(a) ==
    Request(a.data, a.files, None, "POST", a.params, a.path)

NoArgs == [path |-> None, data |-> None, files |-> None, params |-> None,
           json |-> None]

RatelimitSettings == {5, 60}

PostInit(settings) ==
    /\ post_pc = "idle"
    /\ post_args = NoArgs
    /\ requests = <<>>
    /\ exception = NoException
    /\ seconds = None
    /\ slept = <<>>
    /\ raised = NoException
    /\ ratelimit_seconds \in settings

\* -------------------------------------------------------------------- Init
M(i) == MoreBase + i

EmptyWorld ==
    [comments |-> [f \in Containers |-> <<>>],
     by_id |-> [n \in Names |-> None],
     name |-> [h \in CommentHandles |-> None],
     parent_id |-> [h \in CommentHandles |-> None],
     count |-> [m \in MoreHandles |-> None],
     remove_from |-> [m \in MoreHandles |-> None]]

\* Forests as the submission's fetch leaves them: every comment registered.
\* four top-level placeholders with counts 5, 50, 1, 20
PriorityForest ==
    [EmptyWorld EXCEPT
        !.comments[Top] = <<M(1), M(2), M(3), M(4)>>,
        !.count[M(1)] = 5, !.count[M(2)] = 50,
        !.count[M(3)] = 1, !.count[M(4)] = 20]

\* two top-level placeholders with counts 3 and 15
ThresholdForest ==
    [EmptyWorld EXCEPT
        !.comments[Top] = <<M(1), M(2)>>,
        !.count[M(1)] = 3, !.count[M(2)] = 15]

\* comment 1 at top level with reply 2, a placeholder at each level
NestedForest(a, b, c) ==
    [EmptyWorld EXCEPT
        !.comments[Top] = <<1, M(1)>>,
        !.comments[1] = <<2, M(2)>>,
        !.comments[2] = <<M(3)>>,
        !.name[1] = 1, !.name[2] = 2, !.parent_id[2] = 1,
        !.by_id[1] = 1, !.by_id[2] = 2,
        !.count[M(1)] = a, !.count[M(2)] = b, !.count[M(3)] = c]

\* four top-level placeholders with the same count
TiedForest ==
    [EmptyWorld EXCEPT
        !.comments[Top] = <<M(1), M(2), M(3), M(4)>>,
        !.count[M(1)] = 1, !.count[M(2)] = 1,
        !.count[M(3)] = 1, !.count[M(4)] = 1]

InitWorlds ==
    {PriorityForest, ThresholdForest, EmptyWorld, NestedForest(1, 0, 1)}

\* the nodes held by the forest whose list is container f and by the reply
\* forests of its comments: the least set closed under "is in the list of"
RECURSIVE ReachFrom(_, _)
ReachFrom(w, seen) ==
    LET next == seen \cup UNION {SeqToSet(w.comments[c]) :
                                    c \in seen \cap CommentHandles}
    IN IF next = seen THEN seen ELSE ReachFrom(w, next)

Reach(w, f) == ReachFrom(w, SeqToSet(w.comments[f]))

\* what the observer records when a fetch fails: the call, its forest, the
\* placeholders popped before the failing one (settled) and the failing one
\* with those left in the heap (pending)
NoFailure == [callno |-> 0, f |-> None, settled |-> {}, pending |-> {}]

Failure(p) ==
    [callno |-> hist.callno[p], f |-> self[p],
     settled |-> {hist.log[p][i].m : i \in 1..(Len(hist.log[p]) - 1)},
     pending |-> {item[p]} \cup SeqToSet(more_comments[p])]

\* what the observer records of the call before the current one: how it
\* ended and the forest it was made on
NoCall == [pc |-> "idle", f |-> None]

NoInsert == [node |-> None, name |-> None, f |-> None, indexed |-> FALSE,
             err |-> "none"]

InitForest(worlds) ==
    /\ \E w \in worlds :
         /\ comments = w.comments
         /\ by_id = w.by_id
         /\ name = w.name
         /\ parent_id = w.parent_id
         /\ count = w.count
         /\ remove_from = w.remove_from
         /\ hist = [calls |-> 0, inserts |-> 0,
                    callno |-> [p \in Procs |-> 0],
                    nfetch |-> [p \in Procs |-> 0],
                    log |-> [p \in Procs |-> <<>>],
                    gathered |-> [p \in Procs |-> {}],
                    nested |-> [p \in Procs |-> FALSE],
                    present |-> [p \in Procs |-> {}],
                    found |-> [p \in Procs |-> {}],
                    pushed |-> [p \in Procs |-> <<>>],
                    ret |-> [p \in Procs |-> <<>>],
                    merge |-> [p \in Procs |-> <<>>],
                    mergedBy |-> [n \in Names |-> 0],
                    ins |-> NoInsert,
                    failed |-> NoFailure,
                    prev |-> [p \in Procs |-> NoCall]]
    /\ pc = [p \in Procs |-> "idle"]
    /\ self = [p \in Procs |-> Top]
    /\ limit = [p \in Procs |-> None]
    /\ threshold = [p \in Procs |-> 0]
    /\ remaining = [p \in Procs |-> None]
    /\ more_comments = [p \in Procs |-> <<>>]
    /\ skipped = [p \in Procs |-> <<>>]
    /\ item = [p \in Procs |-> None]
    /\ result = [p \in Procs |-> NoList]
    /\ err = [p \in Procs |-> "none"]
    /\ listed = NotListed

InitFrom(worlds) == InitForest(worlds) /\ PostInit({5})

Init == InitFrom(InitWorlds)

\* ----------------------------------------------------------------- actions
SetWorld(w) ==
    /\ comments' = w.comments
    /\ by_id' = w.by_id
    /\ name' = w.name
    /\ parent_id' = w.parent_id
    /\ count' = w.count
    /\ remove_from' = w.remove_from

\* An exception ends the call: its locals more_comments and skipped are gone.
\* The calls are coroutines of one event loop: a call runs from one await to
\* the next without any other call running.
CanRun(p) == \A q \in Procs \ {p} : pc[q] # "loop"
Quiet == \A q \in Procs : pc[q] \in {"idle", "done", "raised"}

\* the forests of the submission: its own and each placed comment's replies
Forests == {Top} \cup {h \in CommentHandles : name[h] # None}

\* replace_more(limit, threshold) is called on forest f: lines 191-193
Call(p, f, lim, thr) ==
    /\ pc[p] \in {"idle", "done", "raised"}
    /\ CanRun(p)
    /\ hist.calls < MaxCalls
    /\ LET g == Gather(World, f, None)
       IN /\ SetWorld(Sweep(g.w))
          /\ more_comments' = [more_comments EXCEPT ![p] = g.heap]
          /\ hist' = [hist EXCEPT
                        !.calls = @ + 1,
                        !.callno[p] = hist.calls + 1,
                        !.nfetch[p] = 0,
                        !.log[p] = <<>>,
                        !.gathered[p] = SeqToSet(g.heap),
                        !.nested[p] = FALSE,
                        !.present[p] = Reach(World, f) \cap MoreHandles,
                        !.found[p] = {},
                        !.pushed[p] = MoresOf(Flatten(World, f)),
                        !.ret[p] = <<>>,
                        !.merge[p] = <<>>,
                        !.prev[p] = [pc |-> pc[p], f |-> self[p]]]
    /\ pc' = [pc EXCEPT ![p] = "loop"]
    /\ self' = [self EXCEPT ![p] = f]
    /\ limit' = [limit EXCEPT ![p] = lim]
    /\ threshold' = [threshold EXCEPT ![p] = thr]
    /\ remaining' = [remaining EXCEPT ![p] = lim]
    /\ skipped' = [skipped EXCEPT ![p] = <<>>]
    /\ item' = [item EXCEPT ![p] = None]
    /\ result' = [result EXCEPT ![p] = NoList]
    /\ err' = [err EXCEPT ![p] = "none"]
    /\ listed' = NotListed
    /\ UNCHANGED postVars

\* what the observer records of one pop: the placeholder, remaining at that
\* moment, and the heap left behind
PopEvent(op, m, before, rest) ==
    [op |-> op, m |-> m, before |-> before, rest |-> rest]

\* lines 196-201: a placeholder is popped and skipped
Skip(p) ==
    /\ pc[p] = "loop"
    /\ more_comments[p] # <<>>
    /\ LET po == HeapPop(count, more_comments[p])
           m == po.item
           tgt == remove_from[m]
       IN /\ ShouldSkip(remaining[p], count[m], threshold[p])
          /\ item' = [item EXCEPT ![p] = m]
          /\ hist' = [hist EXCEPT !.log[p] =
                        Append(@, PopEvent("skip", m, remaining[p],
                                           po.heap))]
          /\ IF m \in SeqToSet(comments[tgt])
             THEN /\ comments' = [comments EXCEPT ![tgt] = ListRemove(@, m)]
                  /\ more_comments' = [more_comments EXCEPT ![p] = po.heap]
                  /\ skipped' = [skipped EXCEPT ![p] = Append(@, m)]
                  /\ UNCHANGED <<pc, err>>
             ELSE /\ pc' = [pc EXCEPT ![p] = "raised"]
                  /\ err' = [err EXCEPT ![p] = "ValueError"]
                  /\ more_comments' = [more_comments EXCEPT ![p] = <<>>]
                  /\ skipped' = [skipped EXCEPT ![p] = <<>>]
                  /\ UNCHANGED comments
    /\ listed' = NotListed
    /\ UNCHANGED <<by_id, name, parent_id, count, remove_from, self, limit,
                   threshold, remaining, result>>
    /\ UNCHANGED postVars

\* lines 196-203: a placeholder is popped and its fetch is awaited
FetchIssue(p) ==
    /\ pc[p] = "loop"
    /\ more_comments[p] # <<>>
    /\ LET po == HeapPop(count, more_comments[p])
           m == po.item
       IN /\ ~ShouldSkip(remaining[p], count[m], threshold[p])
          /\ more_comments' = [more_comments EXCEPT ![p] = po.heap]
          /\ item' = [item EXCEPT ![p] = m]
          /\ hist' = [hist EXCEPT
                        !.nfetch[p] = @ + 1,
                        !.log[p] = Append(@, PopEvent("fetch", m, remaining[p],
                                                       po.heap))]
    /\ pc' = [pc EXCEPT ![p] = "await"]
    /\ UNCHANGED <<forestVars, self, limit, threshold, remaining, skipped,
                   result, err, listed>>
    /\ UNCHANGED postVars

\* variant: the placeholder is taken out of its list before the fetch
FetchFailRemoving(p) ==
    /\ pc[p] = "await"
    /\ CanRun(p)
    /\ pc' = [pc EXCEPT ![p] = "raised"]
    /\ err' = [err EXCEPT ![p] = "FetchError"]
    /\ more_comments' = [more_comments EXCEPT ![p] = <<>>]
    /\ skipped' = [skipped EXCEPT ![p] = <<>>]
    /\ comments' = [comments EXCEPT ![remove_from[item[p]]] =
                        ListRemove(@, item[p])]
    /\ hist' = [hist EXCEPT !.failed = Failure(p)]
    /\ UNCHANGED <<by_id, name, parent_id, count, remove_from, self, limit,
                   threshold, remaining, item, result, listed>>
    /\ UNCHANGED postVars

\* variant: the placeholders left in the heap are taken out of their lists
FetchFailClearing(p) ==
    /\ pc[p] = "await"
    /\ CanRun(p)
    /\ pc' = [pc EXCEPT ![p] = "raised"]
    /\ err' = [err EXCEPT ![p] = "FetchError"]
    /\ more_comments' = [more_comments EXCEPT ![p] = <<>>]
    /\ skipped' = [skipped EXCEPT ![p] = <<>>]
    /\ comments' = [f \in Containers |->
                      SelectSeq(comments[f],
                                LAMBDA x : x \notin SeqToSet(more_comments[p]))]
    /\ hist' = [hist EXCEPT !.failed = Failure(p)]
    /\ UNCHANGED <<by_id, name, parent_id, count, remove_from, self, limit,
                   threshold, remaining, item, result, listed>>
    /\ UNCHANGED postVars

\* line 203 raises: the fetch failed, and replace_more lets it through
FetchFail(p) ==
    /\ pc[p] = "await"
    /\ CanRun(p)
    /\ pc' = [pc EXCEPT ![p] = "raised"]
    /\ err' = [err EXCEPT ![p] = "FetchError"]
    /\ more_comments' = [more_comments EXCEPT ![p] = <<>>]
    /\ skipped' = [skipped EXCEPT ![p] = <<>>]
    /\ hist' = [hist EXCEPT !.failed = Failure(p)]
    /\ UNCHANGED <<forestVars, self, limit, threshold, remaining, item,
                   result, listed>>
    /\ UNCHANGED postVars

\* the comments of a list, placeholders left out
RECURSIVE CommentsOf(_)
CommentsOf(s) ==
    IF s = <<>> THEN <<>>
    ELSE IF IsMore(Head(s)) THEN CommentsOf(Tail(s))
    ELSE <<Head(s)>> \o CommentsOf(Tail(s))

\* the placeholders world w holds that world before did not
Created(before, w) ==
    {x \in MoreHandles : before.count[x] = None /\ w.count[x] # None}

\* the names of the comments a merge placed (its ok inserts of comments)
Merged(log) ==
    {log[i].name : i \in {j \in 1..Len(log) :
                             log[j].err = "ok" /\ ~IsMore(log[j].node)}}

\* the lists the fetch call p awaits may return
Returnable(p) == IF pc[p] = "await" THEN Batches(World) ELSE {}

\* the same, for a collaborator that returns at most one node, a
\* placeholder or a comment without replies
ReturnableOne(p) ==
    IF pc[p] = "await"
    THEN {b \in BatchesFrom(1, KnownNames(World),
                            Cardinality(FreeComments(World)),
                            Cardinality(FreeMores(World))) :
            \A i \in 1..Len(b) : b[i].kid = "N"}
    ELSE {}

\* lines 203-216: the fetch returns the objects of items; they are gathered,
\* inserted, and the fetched placeholder is removed
FetchReturn(p, items) ==
    /\ pc[p] = "await"
    /\ CanRun(p)
    /\ LET mat == Materialise(World, items, <<>>)
           new == NewList(mat.w)
           w0 == [mat.w EXCEPT !.comments[new] = mat.list]
           g == Gather(w0, new, self[p])
           heap1 == PushAll(g.w.count, more_comments[p], g.heap)
           mg == InsertAll(g.w, self[p], mat.list, <<>>)
           m == item[p]
           tgt == mg.w.remove_from[m]
           w1 == mg.w
           raises == IF mg.err # "ok" THEN mg.err
                     ELSE IF m \notin SeqToSet(mg.w.comments[tgt])
                     THEN "ValueError" ELSE "none"
       IN /\ remaining' = [remaining EXCEPT ![p] = Decrement(@)]
          /\ IF raises # "none"
             THEN /\ SetWorld(Sweep(Collect(w1, World)))
                  /\ pc' = [pc EXCEPT ![p] = "raised"]
                  /\ err' = [err EXCEPT ![p] = raises]
                  /\ more_comments' = [more_comments EXCEPT ![p] = <<>>]
                  /\ skipped' = [skipped EXCEPT ![p] = <<>>]
             ELSE /\ SetWorld(Sweep([w1 EXCEPT !.comments[tgt] =
                                                    ListRemove(@, m)]))
                  /\ pc' = [pc EXCEPT ![p] = "loop"]
                  /\ more_comments' = [more_comments EXCEPT ![p] = heap1]
                  /\ UNCHANGED <<err, skipped>>
          /\ hist' = [hist EXCEPT
                        !.found[p] = IF raises # "none" THEN @
                                     ELSE @ \cup {<<x, Len(hist.log[p]),
                                                     CommentsOf(mat.list) # <<>>>> :
                                                    x \in Created(World, mat.w)},
                        !.ret[p] = mat.list,
                        !.pushed[p] = IF raises # "none" THEN @
                                      ELSE @ \o g.heap,
                        !.gathered[p] = IF raises # "none" THEN @
                                        ELSE @ \cup SeqToSet(g.heap),
                        !.nested[p] = @ \/ g.heap # <<>>,
                        !.merge[p] = mg.log,
                        !.mergedBy = [n \in Names |->
                                        IF n \in Merged(mg.log) /\ @[n] = 0
                                        THEN hist.callno[p] ELSE @[n]]]
    /\ listed' = NotListed
    /\ UNCHANGED <<self, limit, threshold, item, result>>
    /\ UNCHANGED postVars

\* lines 196 and 218: the heap is empty and replace_more returns
Return(p) ==
    /\ pc[p] = "loop"
    /\ more_comments[p] = <<>>
    /\ pc' = [pc EXCEPT ![p] = "done"]
    /\ result' = [result EXCEPT ![p] =
                    ReturnValue(more_comments[p], skipped[p])]
    /\ UNCHANGED <<forestVars, self, limit, threshold, remaining,
                   more_comments, skipped, item, err, listed, hist>>
    /\ UNCHANGED postVars

\* the new objects _insert_comment may be called with
Insertable ==
    IF Quiet /\ hist.inserts < MaxInserts
    THEN ValidItems(KnownNames(World), Cardinality(FreeComments(World)),
                    Cardinality(FreeMores(World)))
    ELSE {}

\* _insert_comment is called on forest f with a new object, outside any
\* replace_more call
Insert(f, it) ==
    /\ Quiet
    /\ hist.inserts < MaxInserts
    /\ LET mat == Materialise(World, <<it>>, <<>>)
           c == mat.list[1]
           r == InsertComment(mat.w, f, c)
       IN /\ SetWorld(Collect(r.w, World))
          /\ hist' = [hist EXCEPT
                        !.inserts = @ + 1,
                        !.ins = [node |-> c, name |-> NameOf(mat.w, c),
                                 f |-> f,
                                 indexed |-> Indexed(mat.w, NameOf(mat.w, c)),
                                 err |-> r.err]]
    /\ listed' = NotListed
    /\ UNCHANGED callVars
    /\ UNCHANGED postVars

\* list() is called on forest f
List(f) ==
    /\ Quiet
    /\ listed.n < MaxLists
    /\ listed.f \in {None, f}
    /\ LET r == Listed(World, f)
       IN /\ SetWorld(r.w)
          /\ listed' = [f |-> f, out |-> r.out, n |-> listed.n + 1,
                        prev |-> listed.out]
    /\ UNCHANGED <<callVars, hist>>
    /\ UNCHANGED postVars

\* One replace_more call on a forest as fetched, against any collaborator.
Next ==
    \/ \E f \in Forests, lim \in Limits, thr \in Thresholds :
          hist.calls = 0 /\ Call(1, f, lim, thr)
    \/ Skip(1)
    \/ FetchIssue(1)
    \/ \E items \in Returnable(1) : FetchReturn(1, items)
    \/ FetchFail(1)
    \/ Return(1)
    \/ \E f \in Forests : List(f)

Spec == Init /\ [][Next]_vars

\* Successive replace_more calls on forests of one submission, against a
\* collaborator that returns at most one node.
NextSeq ==
    \/ \E f \in Forests, lim \in Limits : Call(1, f, lim, 0)
    \/ Skip(1)
    \/ FetchIssue(1)
    \/ \E items \in ReturnableOne(1) : FetchReturn(1, items)
    \/ FetchFail(1)
    \/ Return(1)

InitSeq == InitFrom({NestedForest(1, 0, 1)})

SpecSeq == InitSeq /\ [][NextSeq]_vars

\* The same on a forest of placeholders with equal counts.
InitTies == InitFrom({TiedForest})

SpecTies == InitTies /\ [][NextSeq]_vars

\* One replace_more call against a collaborator that never fails and returns
\* at most one node.  The call is one coroutine: once called it runs each
\* statement it reaches, and the fetch it awaits returns.
NextLive ==
    \/ \E f \in Forests, lim \in Limits, thr \in Thresholds :
          hist.calls = 0 /\ Call(1, f, lim, thr)
    \/ Skip(1)
    \/ FetchIssue(1)
    \/ \E items \in ReturnableOne(1) : FetchReturn(1, items)
    \/ Return(1)

InitLive == InitFrom({ThresholdForest, NestedForest(1, 0, 1)})

Fairness ==
    /\ WF_vars(Skip(1))
    /\ WF_vars(FetchIssue(1))
    /\ WF_vars(\E items \in ReturnableOne(1) : FetchReturn(1, items))
    /\ WF_vars(Return(1))

SpecLive == InitLive /\ [][NextLive]_vars /\ Fairness

\* Direct _insert_comment calls before and after one replace_more call.
NextIns ==
    \/ \E f \in Forests, it \in Insertable : Insert(f, it)
    \/ \E f \in Forests, lim \in Limits :
          hist.calls = 0 /\ Call(1, f, lim, 0)
    \/ Skip(1)
    \/ FetchIssue(1)
    \/ \E items \in ReturnableOne(1) : FetchReturn(1, items)
    \/ FetchFail(1)
    \/ Return(1)

InitIns == InitFrom({EmptyWorld, NestedForest(1, 0, 1)})

SpecIns == InitIns /\ [][NextIns]_vars

\* Two replace_more calls on forests of one submission, each a coroutine of
\* the same event loop: one runs from an await to its next await, then
\* either may go on.  The collaborator returns at most one node.
NextTwo ==
    \/ \E p \in Procs, f \in Forests, lim \in Limits :
          pc[p] = "idle" /\ Call(p, f, lim, 0)
    \/ \E p \in Procs : Skip(p)
    \/ \E p \in Procs : FetchIssue(p)
    \/ \E p \in Procs : \E items \in ReturnableOne(p) : FetchReturn(p, items)
    \/ \E p \in Procs : Return(p)

InitTwo == InitFrom({ThresholdForest})

SpecTwo == InitTwo /\ [][NextTwo]_vars

\* post(path, data, files, params, json) is called: lines 801-810, up to the
\* await of the first request
Post(path, data, files, params, json) ==
    /\ post_pc = "idle"
    /\ LET a == [path |-> path,
                 data |-> IF json = None /\ Falsy(data) THEN EmptyDict
                          ELSE data,
                 files |-> files, params |-> params, json |-> json]
       IN /\ post_args' = a
          /\ requests' = Append(requests, FirstRequest(a))
    /\ post_pc' = "first"
    /\ UNCHANGED <<exception, seconds, slept, raised, ratelimit_seconds>>
    /\ UNCHANGED <<forestVars, callVars, listed, hist>>

\* line 803: the first request returns, and so does post
FirstReturns ==
    /\ post_pc = "first"
    /\ post_pc' = "returned"
    /\ UNCHANGED <<post_args, requests, exception, seconds, slept, raised,
                   ratelimit_seconds>>
    /\ UNCHANGED <<forestVars, callVars, listed, hist>>

\* lines 803-824: the first request raises exc.  An exception that is no
\* RedditAPIException leaves post; a RedditAPIException is caught, and post
\* goes to sleep when _handle_rate_limit gives a delay and re-raises
\* otherwise.
FirstRaises(exc) ==
    /\ post_pc = "first"
    /\ IF exc.type # "RedditAPIException"
       THEN /\ post_pc' = "raised"
            /\ raised' = exc
            /\ UNCHANGED <<exception, seconds>>
       ELSE LET s == HandleRateLimit(exc.items, ratelimit_seconds)
            IN /\ exception' = exc
               /\ seconds' = s
               /\ IF s # None
                  THEN post_pc' = "sleep" /\ UNCHANGED raised
                  ELSE post_pc' = "raised" /\ raised' = exc
    /\ UNCHANGED <<post_args, requests, slept, ratelimit_seconds>>
    /\ UNCHANGED <<forestVars, callVars, listed, hist>>

\* lines 815-816: asyncio.sleep(seconds) is over and the request is made
\* again
SleepDone ==
    /\ post_pc = "sleep"
    /\ slept' = Append(slept, seconds)
    /\ requests' = Append(requests, RetryRequest(post_args))
    /\ post_pc' = "retry"
    /\ UNCHANGED <<post_args, exception, seconds, raised, ratelimit_seconds>>
    /\ UNCHANGED <<forestVars, callVars, listed, hist>>

\* line 816: the second request returns, and so does post
RetryReturns ==
    /\ post_pc = "retry"
    /\ post_pc' = "returned"
    /\ UNCHANGED <<post_args, requests, exception, seconds, slept, raised,
                   ratelimit_seconds>>
    /\ UNCHANGED <<forestVars, callVars, listed, hist>>

\* line 816: the second request raises, inside the except clause: nothing
\* catches it
RetryRaises(exc) ==
    /\ post_pc = "retry"
    /\ post_pc' = "raised"
    /\ raised' = exc
    /\ UNCHANGED <<post_args, requests, exception, seconds, slept,
                   ratelimit_seconds>>
    /\ UNCHANGED <<forestVars, callVars, listed, hist>>

\* the exceptions a request in flight may raise
Raisable(at) == IF post_pc = at THEN Exceptions ELSE {}

\* One post call against any server.
NextPost ==
    \/ \E data \in DataValues, files \in OptValues, params \in OptValues,
          json \in OptValues : Post(Payload, data, files, params, json)
    \/ FirstReturns
    \/ \E exc \in Raisable("first") : FirstRaises(exc)
    \/ SleepDone
    \/ RetryReturns
    \/ \E exc \in Raisable("retry") : RetryRaises(exc)

InitPost == InitForest({EmptyWorld}) /\ PostInit(RatelimitSettings)

SpecPost == InitPost /\ [][NextPost]_vars

\* ------------------------------------------------------------------ claims
Events(p) == {hist.log[p][i] : i \in 1..Len(hist.log[p])}
Fetched(p) == {e.m : e \in {x \in Events(p) : x.op = "fetch"}}
Skipped(p) == {e.m : e \in {x \in Events(p) : x.op = "skip"}}

\* the fetches of call p whose await is over
Returned(p) ==
    hist.nfetch[p]
    - (IF pc[p] = "await" \/ (pc[p] = "raised" /\ err[p] = "FetchError")
       THEN 1 ELSE 0)

NoDuplicates(s) == \A i, j \in 1..Len(s) : s[i] = s[j] => i = j

\* C1: with a limit L >= 0 a replace_more call issues at most L fetches, and
\* remaining is L minus the fetches that returned: a skip leaves it alone.
C1_FetchesWithinLimit ==
    (pc[1] # "idle" /\ limit[1] # None) =>
        /\ hist.nfetch[1] <= limit[1]
        /\ remaining[1] = limit[1] - Returned(1)
        /\ remaining[1] >= 0

C1_Witness ==
    /\ pc[1] = "done" /\ limit[1] = 1 /\ hist.nfetch[1] = 1
    /\ Skipped(1) # {}
    /\ hist.log[1][1].op = "fetch"

\* C2: with limit = 0 every step of the call leaves the index and the
\* comments of every list as they are, issues no fetch and raises nothing,
\* and the call returns the skipped list, which holds exactly the
\* placeholders the forest held when the call started, each once.
C2_LimitZeroSkipsAll ==
    [][(pc[1] = "loop" /\ limit[1] = 0) =>
          /\ pc'[1] \in {"loop", "done"}
          /\ hist'.nfetch[1] = 0
          /\ by_id' = by_id
          /\ \A f \in Containers :
                CommentsOf(comments'[f]) = CommentsOf(comments[f])
          /\ pc'[1] = "done" =>
                /\ result'[1] = skipped[1]
                /\ SeqToSet(result'[1]) = hist.present[1]
                /\ NoDuplicates(result'[1])
                /\ Skipped(1) = hist.present[1]]_vars

C2_Witness ==
    /\ pc[1] = "done" /\ limit[1] = 0 /\ self[1] = Top
    /\ Len(result[1]) = 3
    /\ \E m \in SeqToSet(result[1]) : remove_from[m] # Top

\* C3: a popped placeholder with count < threshold is skipped, one with
\* count >= threshold is fetched when remaining is None or positive, and a
\* skip leaves remaining as it was.
C3_ThresholdDecides ==
    \A i \in 1..Len(hist.log[1]) :
        LET e == hist.log[1][i]
            after == IF i < Len(hist.log[1]) THEN hist.log[1][i + 1].before
                     ELSE remaining[1]
        IN /\ count[e.m] < threshold[1] => e.op = "skip"
           /\ (count[e.m] >= threshold[1] /\ (e.before = None \/ e.before > 0))
                 => e.op = "fetch"
           /\ (e.op = "skip" /\ pc[1] # "raised") => after = e.before

C3_Witness ==
    /\ threshold[1] = 10
    /\ \E e \in Events(1) : e.op = "skip" /\ count[e.m] = 3
    /\ \E e \in Events(1) : e.op = "fetch" /\ count[e.m] = 15

\* C4: a popped placeholder's count is at least the count of every
\* placeholder left in the heap; from counts 5, 50, 1, 20 with no limit, no
\* threshold and no placeholder fetched the fetches go 50, 20, 5, 1.
C4_PriorityOrder ==
    /\ \A e \in Events(1) : \A x \in SeqToSet(e.rest) : count[e.m] >= count[x]
    /\ (/\ pc[1] = "done" /\ limit[1] = None /\ threshold[1] = 0
        /\ ~hist.nested[1]
        /\ hist.present[1] = {M(1), M(2), M(3), M(4)}
        /\ <<count[M(1)], count[M(2)], count[M(3)], count[M(4)]>>
              = <<5, 50, 1, 20>>)
       => /\ [i \in 1..Len(hist.log[1]) |-> count[hist.log[1][i].m]]
                = <<50, 20, 5, 1>>
          /\ \A e \in Events(1) : e.op = "fetch"

C4_Witness ==
    /\ pc[1] = "done" /\ limit[1] = None /\ threshold[1] = 0
    /\ ~hist.nested[1]
    /\ hist.present[1] = {M(1), M(2), M(3), M(4)}
    /\ count[M(2)] = 50
    /\ hist.nfetch[1] = 4

\* C5: an _insert_comment call with a comment whose name the index already
\* holds raises DuplicateReplaceException and leaves the index and every list
\* as they were.
C5_DuplicateInsertRejected ==
    [][(/\ hist'.inserts = hist.inserts + 1
        /\ hist'.ins.name \in Names
        /\ by_id[hist'.ins.name] # None)
       => /\ hist'.ins.err = "DuplicateReplaceException"
          /\ by_id' = by_id
          /\ comments' = comments]_vars

C5_Witness ==
    /\ hist.ins.err = "DuplicateReplaceException"
    /\ hist.calls = 1
    /\ hist.mergedBy[hist.ins.name] = 1

\* C6: when a call's fetch returns a comment whose name an earlier call
\* merged, its insert raises DuplicateReplaceException, nothing after it is
\* inserted, and the call ends with that exception.
C6_RefetchRaisesDuplicate ==
    \A i \in 1..Len(hist.merge[1]) :
        LET e == hist.merge[1][i]
        IN (/\ e.name \in Names
            /\ hist.mergedBy[e.name] >= 1
            /\ hist.mergedBy[e.name] < hist.callno[1])
           => /\ e.err = "DuplicateReplaceException"
              /\ i = Len(hist.merge[1])
              /\ pc[1] = "raised"
              /\ err[1] = "DuplicateReplaceException"

C6_Witness ==
    /\ hist.callno[1] = 2
    /\ pc[1] = "raised"
    /\ err[1] = "DuplicateReplaceException"
    /\ \E i \in 1..Len(hist.merge[1]) :
          hist.mergedBy[hist.merge[1][i].name] = 1

\* C7: with limit None, threshold 0 and no placeholder ever fetched, the call
\* returns the empty list and list() then holds no placeholder.
C7_FullResolution ==
    (/\ pc[1] = "done" /\ limit[1] = None /\ threshold[1] = 0
     /\ ~hist.nested[1])
    => /\ result[1] = <<>>
       /\ \A x \in SeqToSet(Flatten(World, self[1])) : ~IsMore(x)

C7_Witness ==
    /\ pc[1] = "done" /\ limit[1] = None /\ threshold[1] = 0
    /\ ~hist.nested[1]
    /\ hist.nfetch[1] = 3
    /\ \E n \in Names : hist.mergedBy[n] = 1

RECURSIVE SkipOrder(_)
SkipOrder(log) ==
    IF log = <<>> THEN <<>>
    ELSE IF Head(log).op = "skip" THEN <<Head(log).m>> \o SkipOrder(Tail(log))
    ELSE SkipOrder(Tail(log))

\* C9: the returned list is the heap left at loop exit followed by the
\* skipped list; it holds the placeholders that were skipped, in skip order,
\* each once, which are the gathered ones that were not fetched.
C9_ReturnsUnreplaced ==
    pc[1] = "done" =>
        /\ result[1] = more_comments[1] \o skipped[1]
        /\ result[1] = SkipOrder(hist.log[1])
        /\ NoDuplicates(result[1])
        /\ SeqToSet(result[1]) \cap Fetched(1) = {}
        /\ SeqToSet(result[1]) = hist.gathered[1] \ Fetched(1)

C9_Witness ==
    /\ pc[1] = "done" /\ Len(result[1]) = 2 /\ hist.nfetch[1] = 2
    /\ hist.nested[1]

\* the nodes held by the lists of forest f and of its reachable comments
Held(w, f) ==
    LET lists == {f} \cup (Reach(w, f) \cap CommentHandles)
    IN UNION {{<<c, i>> : i \in 1..Len(w.comments[c])} : c \in lists}

\* C10: list() yields exactly the nodes reachable from the forest through
\* comments' replies, each once, as many as the lists hold.
C10_FlattenComplete ==
    listed.f # None =>
        /\ SeqToSet(listed.out) = Reach(World, listed.f)
        /\ NoDuplicates(listed.out)
        /\ Len(listed.out) = Cardinality(Held(World, listed.f))

C10_Witness ==
    /\ listed.f = Top
    /\ Len(listed.out) >= 5
    /\ \E x \in SeqToSet(listed.out) : IsMore(x) /\ x \notin SeqToSet(comments[Top])
    /\ \E x \in SeqToSet(listed.out) : x \in CommentHandles \ InitComments

\* the position of node x in list s
Pos(s, x) == CHOOSE i \in 1..Len(s) : s[i] = x

\* the replies of the comments of a list, list after list
RECURSIVE RepliesOf(_, _)
RepliesOf(w, level) ==
    IF level = <<>> THEN <<>>
    ELSE (IF IsMore(Head(level)) THEN <<>> ELSE w.comments[Head(level)])
         \o RepliesOf(w, Tail(level))

\* the tree level by level: a list, then the replies of its comments, ...
RECURSIVE Levels(_, _)
Levels(w, level) ==
    IF level = <<>> THEN <<>> ELSE level \o Levels(w, RepliesOf(w, level))

\* C11: list() yields the breadth-first order of the tree: the top-level
\* list, then level after level; two nodes of one list come in the order
\* the list stores them, and a comment comes before each of its replies.
C11_FlattenBreadthFirst ==
    listed.f # None =>
        /\ listed.out = Levels(World, comments[listed.f])
        /\ \A c \in {listed.f} \cup (Reach(World, listed.f) \cap CommentHandles) :
              /\ \A i, j \in 1..Len(comments[c]) :
                    i < j => Pos(listed.out, comments[c][i])
                                < Pos(listed.out, comments[c][j])
              /\ \A i \in 1..Len(comments[c]) :
                    c # listed.f => Pos(listed.out, c)
                                       < Pos(listed.out, comments[c][i])

C11_Witness ==
    /\ listed.f = Top
    /\ Len(listed.out) >= 5
    /\ listed.out[1] \in CommentHandles
    /\ \E i \in 1..Len(listed.out) - 2 :
          /\ IsMore(listed.out[i])
          /\ listed.out[i + 1] \in CommentHandles
          /\ listed.out[i + 1] \in SeqToSet(comments[listed.out[1]])
          /\ IsMore(listed.out[i + 2])

\* C12: a list() call leaves every list and the index as they were, and a
\* second call on the unchanged forest returns what the first returned.
C12_FlattenMutatesNothing ==
    [][listed' # listed =>
          \/ listed' = NotListed
          \/ /\ comments' = comments
             /\ by_id' = by_id
             /\ <<name', parent_id', count', remove_from'>>
                   = <<name, parent_id, count, remove_from>>
             /\ listed'.n = 2 => listed'.out = listed.out]_vars

C12_Witness ==
    /\ listed.n = 2
    /\ listed.f = Top
    /\ listed.out = listed.prev
    /\ Len(listed.out) >= 4
    /\ \E x \in SeqToSet(listed.out) : x \in CommentHandles \ InitComments

\* C13: a placeholder that a fetch of the call returned, at the top of the
\* returned list or in the replies of a returned comment, is in the heap of
\* the call until it is popped, and it is popped, after the fetch that
\* returned it, before the call returns.
C13_NestedDiscovery ==
    \A d \in hist.found[1] :
        /\ pc[1] \in {"loop", "await"} =>
              \/ d[1] \in SeqToSet(more_comments[1])
              \/ \E i \in (d[2] + 1)..Len(hist.log[1]) : hist.log[1][i].m = d[1]
        /\ pc[1] = "done" =>
              \E i \in (d[2] + 1)..Len(hist.log[1]) : hist.log[1][i].m = d[1]
        /\ \A i \in 1..d[2] : hist.log[1][i].m # d[1]

C13_Witness ==
    /\ pc[1] = "done"
    /\ \E d \in hist.found[1] :
          /\ d[3]
          /\ d[1] \in Fetched(1)
          /\ remove_from[d[1]] = Top

\* C14: issuing a fetch changes neither the lists nor the index, and when
\* the fetch fails the call ends with that failure and no further fetch:
\* the lists and the index are as they were, the comments merged before are
\* still indexed and held, the placeholders popped before are held by no
\* list, and the placeholder whose fetch failed is still in its list.
C14_FetchFailureKeepsProgress ==
    [][/\ (pc[1] = "loop" /\ pc'[1] = "await") =>
             /\ <<comments', by_id'>> = <<comments, by_id>>
             /\ item'[1] \in SeqToSet(comments[remove_from[item'[1]]])
       /\ (pc[1] = "await" /\ pc'[1] = "raised" /\ err'[1] = "FetchError") =>
             /\ <<comments', by_id'>> = <<comments, by_id>>
             /\ <<name', parent_id', count', remove_from'>>
                   = <<name, parent_id, count, remove_from>>
             /\ hist'.nfetch = hist.nfetch
             /\ item'[1] = item[1]
             /\ item[1] \in SeqToSet(comments'[remove_from'[item[1]]])
             /\ \A n \in Names : hist.mergedBy[n] = 1 =>
                    /\ by_id'[n] # None
                    /\ by_id'[n] \in Reach([comments |-> comments'], Top)
             /\ \A i \in 1..(Len(hist.log[1]) - 1) :
                    hist.log[1][i].m
                        \notin Reach([comments |-> comments'], Top)
       /\ (pc[1] = "raised" /\ err[1] = "FetchError") =>
             (pc'[1] = "raised" /\ hist'.nfetch = hist.nfetch)]_vars

C14_Witness ==
    /\ pc[1] = "raised" /\ err[1] = "FetchError"
    /\ hist.nfetch[1] = 2
    /\ hist.log[1][1].m \notin Reach(World, Top)
    /\ \E n \in Names : hist.mergedBy[n] = 1
    /\ item[1] \in SeqToSet(comments[remove_from[item[1]]])
    /\ remove_from[item[1]] # Top

\* C15: every comment reachable from the submission's forest has its name
\* in the index, and no two reachable comments have the same name.
C15_ReachableIndexedOnce ==
    LET held == Reach(World, Top) \cap CommentHandles
    IN /\ \A c \in held : Indexed(World, name[c])
       /\ \A c, d \in held : name[c] = name[d] => c = d

\* the lists that hold node x
Holders(x) == {f \in Containers : x \in SeqToSet(comments[f])}

C18_NoLimitNoBudgetSkip ==
    (pc[1] # "idle" /\ limit[1] = None) =>
        /\ remaining[1] = None
        /\ \A e \in Events(1) :
              /\ e.before = None
              /\ e.op = "skip" <=> count[e.m] < threshold[1]
              /\ e.op = "fetch" <=> count[e.m] >= threshold[1]
        /\ Skipped(1) = {e.m : e \in {x \in Events(1) :
                                          count[x.m] < threshold[1]}}

C18_Witness ==
    /\ pc[1] = "done" /\ limit[1] = None /\ threshold[1] = 10
    /\ hist.nfetch[1] = 1
    /\ Cardinality(Skipped(1)) = 2
    /\ \E d \in hist.found[1] : d[1] \in Skipped(1)

\* C19: a replace_more call whose fetches all return ends: it returns, or
\* an insert of a returned node raises.  Every pop takes one placeholder out
\* of the heap, only a returned fetch adds any, and the call returns with
\* the heap empty.
C19_Terminates ==
    /\ (pc[1] = "loop") ~> (pc[1] \in {"done", "raised"})
    /\ [](pc[1] = "done" => more_comments[1] = <<>>)
    /\ [](pc[1] = "raised"
            => err[1] \in {"DuplicateReplaceException", "AssertionError"})
    /\ [][(pc[1] = "loop" /\ pc'[1] \in {"loop", "await"}) =>
             Len(more_comments'[1]) = Len(more_comments[1]) - 1]_vars

C19_Witness ==
    /\ pc[1] = "done" /\ limit[1] = None /\ threshold[1] = 0
    /\ more_comments[1] = <<>>
    /\ hist.nfetch[1] = 4
    /\ hist.found[1] # {}

\* list s without node x
RECURSIVE Without(_, _)
Without(s, x) ==
    IF s = <<>> THEN <<>>
    ELSE (IF Head(s) = x THEN <<>> ELSE <<Head(s)>>) \o Without(Tail(s), x)

\* the nodes ret[i], i from..k, whose destination dest[i] is list c, in order
RECURSIVE GoingTo(_, _, _, _, _)
GoingTo(ret, dest, c, from, k) ==
    IF from > k THEN <<>>
    ELSE (IF dest[from] = c THEN <<ret[from]>> ELSE <<>>)
         \o GoingTo(ret, dest, c, from + 1, k)

\* C20: when the nodes a fetch returned are merged, they are inserted in the
\* order returned; each list ends up as it was, followed by the inserted
\* nodes that go to it in that order: a placeholder or root comment goes to
\* the forest replace_more was called on, another comment to the replies of
\* the comment the index maps its parent_id to.
C20_AppendsInOrder ==
    [][(pc[1] = "await" /\ pc'[1] \in {"loop", "raised"}
        /\ err'[1] # "FetchError") =>
          LET log == hist'.merge[1]
              ret == hist'.ret[1]
              k == Cardinality({i \in 1..Len(log) : log[i].err = "ok"})
              dest == [i \in 1..k |->
                         IF IsMore(ret[i]) \/ parent_id'[ret[i]] = None
                         THEN self[1] ELSE log[i].mapsto]
          IN /\ \A i \in 1..Len(log) : log[i].node = ret[i]
             /\ \A i \in 1..k : log[i].err = "ok"
             /\ \A c \in {Top} \cup CommentHandles :
                   LET placed == GoingTo(ret, dest, c, 1, k)
                       new == comments'[c]
                       pre == IF c = Top \/ name[c] # None
                              THEN Without(comments[c], item[1])
                              ELSE SubSeq(new, 1, Len(new) - Len(placed))
                   IN /\ Len(placed) <= Len(new)
                      /\ Without(new, item[1]) = pre \o placed
                      /\ SeqToSet(pre) \cap SeqToSet(placed) = {}]_vars

C20_Witness ==
    /\ pc[1] = "loop"
    /\ Len(hist.ret[1]) = 2 /\ Len(hist.merge[1]) = 2
    /\ hist.merge[1][1].mapsto = 1
    /\ comments[1] = <<2, hist.ret[1][1]>> \/ comments[1] = <<2, M(2), hist.ret[1][1]>>
    /\ IsMore(hist.ret[1][2])
    /\ comments[Top][Len(comments[Top])] = hist.ret[1][2]

\* C21 as stated: the removal target of a placeholder is never a list that a
\* fetch returned: it is the replies list of a comment or the list of the
\* forest replace_more was called on.
C21_TargetNeverFetchedList ==
    \A m \in MoreHandles :
        (count[m] # None /\ remove_from[m] # None)
            => remove_from[m] \in {Top} \cup CommentHandles

\* the lists of the submission's tree: its forest and the replies of every
\* comment reachable from it
TreeLists(w) == {Top} \cup (Reach(w, Top) \cap CommentHandles)

\* the placeholders the pops of a log name, in order
Popped(log) == [i \in 1..Len(log) |-> log[i].m]

C23_MergedBeforeNextPop ==
    [][/\ pc[1] = "await" => hist'.log[1] = hist.log[1]
       /\ (pc[1] = "await" /\ pc'[1] = "loop") =>
             /\ Len(hist'.merge[1]) = Len(hist'.ret[1])
             /\ \A i \in 1..Len(hist'.ret[1]) :
                   /\ hist'.merge[1][i].node = hist'.ret[1][i]
                   /\ hist'.merge[1][i].err = "ok"
       /\ (Len(hist'.log[1]) = Len(hist.log[1]) + 1 /\ hist.nfetch[1] >= 1) =>
             LET prev == CHOOSE i \in 1..Len(hist.log[1]) :
                            /\ hist.log[1][i].op = "fetch"
                            /\ \A j \in (i + 1)..Len(hist.log[1]) :
                                  hist.log[1][j].op # "fetch"
             IN /\ pc[1] = "loop"
                /\ \A f \in Containers :
                      hist.log[1][prev].m \notin SeqToSet(comments[f])
                /\ \A x \in SeqToSet(hist.ret[1]) :
                      /\ ~IsMore(x) => /\ x \in Reach(World, Top)
                                       /\ by_id[name[x]] # None
                      /\ IsMore(x) => \/ x \in Reach(World, Top)
                                      \/ x \in Skipped(1) \cup Fetched(1)
                /\ \A n \in Names : hist.mergedBy[n] = 1 => by_id[n] # None]_vars

C23_Witness ==
    /\ pc[1] = "await"
    /\ hist.nfetch[1] = 2
    /\ Len(hist.ret[1]) = 2
    /\ \E n \in Names : hist.mergedBy[n] = 1 /\ by_id[n] \in Reach(World, Top)
    /\ \A f \in Containers : hist.log[1][1].m \notin SeqToSet(comments[f])

\* call 1 is the call made after the call that a failed fetch ended
Retrying == hist.failed.callno = 1 /\ hist.callno[1] = 2

C27_FetchesThenSkips ==
    /\ \A i, j \in 1..Len(hist.log[1]) :
          (i < j /\ hist.log[1][i].op = "skip") =>
              /\ hist.log[1][j].op = "skip"
              /\ hist.log[1][j].before = hist.log[1][i].before
              /\ SeqToSet(hist.log[1][j].rest)
                    \subseteq SeqToSet(hist.log[1][i].rest)
    /\ Skipped(1) # {} => pc[1] # "await"

C27_Witness ==
    /\ pc[1] = "done"
    /\ Len(hist.log[1]) = 4
    /\ hist.log[1][2].op = "fetch" /\ hist.log[1][3].op = "skip"
    /\ count[hist.log[1][3].m] < threshold[1]
    /\ hist.log[1][3].before = None

\* call 1 was made on the forest of the call before it, which returned
Repeated == hist.prev[1].pc = "done" /\ hist.prev[1].f = self[1]

C29_IndexedArePlaced ==
    \A n \in Names :
        by_id[n] # None => by_id[n] \in Reach(World, Top)

\* C30: when an insert of the merge raises, the call ends with that
\* exception and the fetched placeholder is still in its list, in the tree;
\* the nodes returned before the failing one are in the tree, the comments
\* among them in the index; the failing node and the nodes after it are in
\* no list.  When no insert raises, every returned node has been inserted
\* and the placeholder is then in no list.
C30_RemovedAfterMerge ==
    [][/\ (pc[1] = "await" /\ pc'[1] = "raised" /\ err'[1] # "FetchError") =>
             LET log == hist'.merge[1]
                 ret == hist'.ret[1]
                 k == Len(log)
                 tree == Reach([comments |-> comments'], Top)
             IN /\ err'[1] \in {"DuplicateReplaceException", "AssertionError"}
                /\ k >= 1 /\ k <= Len(ret)
                /\ log[k].err = err'[1] /\ log[k].node = ret[k]
                /\ item[1] \in SeqToSet(comments'[remove_from'[item[1]]])
                /\ item[1] \in tree
                /\ \A i \in 1..(k - 1) :
                      /\ log[i].err = "ok"
                      /\ ret[i] \in tree
                      /\ ~IsMore(ret[i]) => by_id'[name'[ret[i]]] # None
                /\ \A i \in k..Len(ret) : \A f \in Containers :
                      ret[i] \notin SeqToSet(comments'[f])
       /\ (pc[1] = "await" /\ pc'[1] = "loop") =>
             /\ Len(hist'.merge[1]) = Len(hist'.ret[1])
             /\ \A i \in 1..Len(hist'.merge[1]) : hist'.merge[1][i].err = "ok"
             /\ \A x \in SeqToSet(hist'.ret[1]) :
                   x \in Reach([comments |-> comments'], Top)
             /\ \A f \in Containers : item[1] \notin SeqToSet(comments'[f])]_vars

C30_Witness ==
    /\ pc[1] = "raised"
    /\ err[1] = "DuplicateReplaceException"
    /\ Len(hist.ret[1]) = 2 /\ Len(hist.merge[1]) = 2
    /\ hist.merge[1][1].err = "ok"
    /\ hist.ret[1][1] \in Reach(World, Top)
    /\ item[1] \in SeqToSet(comments[remove_from[item[1]]])
    /\ hist.nfetch[1] = 2

\* Some RATELIMIT item of the exception has a delay that parses and is at
\* most the setting.
WithinLimit(exc, setting) ==
    /\ exc.type = "RedditAPIException"
    /\ \E i \in 1..Len(exc.items) :
          /\ exc.items[i].error_type = "RATELIMIT"
          /\ Search(exc.items[i].message, 1) # NoMatch
          /\ ParsedSeconds(Search(exc.items[i].message, 1)) <= setting

\* C31: Reddit.post sends at most two requests per call.  The second request
\* is made only from the sleep that follows a first request failing with a
\* RedditAPIException for which _handle_rate_limit gives a delay, and then
\* some RATELIMIT item of that exception has a parsed delay of at most
\* config.ratelimit_seconds and exactly that delay was slept once.  When the
\* first request fails otherwise, the exception it raised leaves post with no
\* second request and no sleep; when the retry fails, its exception leaves
\* post with no third request; a finished call sends nothing more.
C31_AtMostOneRetry ==
    [][/\ Len(requests') <= 2
       /\ post_pc \notin {"returned", "raised"}
       /\ requests' # requests =>
             \/ post_pc = "idle" /\ requests = <<>>
             \/ /\ post_pc = "sleep" /\ Len(requests) = 1
                /\ slept = <<>> /\ slept' = <<seconds>>
       /\ slept' # slept => Len(requests') = 2
       /\ Len(requests') = 2 =>
             /\ WithinLimit(exception', ratelimit_seconds')
             /\ seconds' # None
             /\ seconds' = HandleRateLimit(exception'.items, ratelimit_seconds')
             /\ slept' = <<seconds'>>
       /\ post_pc = "first" /\ post_pc' = "sleep" =>
             /\ exception'.type = "RedditAPIException"
             /\ HandleRateLimit(exception'.items, ratelimit_seconds) # None
       /\ post_pc = "first" /\ post_pc' = "raised" =>
             /\ raised' # NoException
             /\ requests' = requests /\ slept' = <<>>
             /\ raised'.type = "RedditAPIException" =>
                   /\ raised' = exception'
                   /\ HandleRateLimit(raised'.items, ratelimit_seconds) = None
       /\ post_pc = "retry" /\ post_pc' = "raised" =>
             /\ raised' # NoException
             /\ requests' = requests /\ slept' = slept
             /\ exception' = exception
      ]_vars

\* the retry failed with a rate limit that is again within the setting, and
\* post was left with two requests made
C31_Witness ==
    /\ post_pc = "raised"
    /\ Len(requests) = 2
    /\ Len(slept) = 1
    /\ raised.type = "RedditAPIException"
    /\ HandleRateLimit(raised.items, ratelimit_seconds) # None

\* C32: when Reddit.post retries after a rate limit, the retried request is
\* the same request as the first one: same path, data, files, params and
\* json body.
C32_RetrySameRequest ==
    Len(requests) = 2 =>
        /\ requests[2].path = requests[1].path
        /\ requests[2].data = requests[1].data
        /\ requests[2].files = requests[1].files
        /\ requests[2].params = requests[1].params
        /\ requests[2].json = requests[1].json

====
